---- MODULE Spec2Model ----
(***************************************************************************)
(* Receipt service: session tokens (auth.py), the record normalizer and    *)
(* the scoped store gateway (fbase.py), the extraction/reasoning           *)
(* dispatcher (llm.py), the wallet object builder (main.py) and the HTTP   *)
(* surface binding them (llm_api.py).                                      *)
(*                                                                         *)
(* A Python dict is a function whose DOMAIN is the set of keys present,    *)
(* so d.get(k, default) is Get(d, k, default).  Amounts are integers in    *)
(* the currency's minor unit.  Time is counted in ticks, TicksPerSecond    *)
(* of them to a second, so that int(timestamp) is a real truncation.       *)
(***************************************************************************)
EXTENDS Integers, Sequences, FiniteSets, TLC

VARIABLES now, tokens, receipts, items, last

vars == <<now, tokens, receipts, items, last>>

----------------------------------------------------------------------------
(* Bounds of the model *)

MaxItems == 2
MaxReceipts == 2
MaxTokens == 2
Slack == 1
TicksPerSecond == 2

----------------------------------------------------------------------------
(* Python values *)

EmptyDict == <<>>

None == "<None>"

Get(d, k, default) == IF k \in DOMAIN d THEN d[k] ELSE default

\* d.get(k): None when the key is absent
GetOrNone(d, k) == Get(d, k, None)

\* Python truth value of a string-or-None
Truthy(v) == v # None /\ v # ""

Opt(k, V) == {EmptyDict} \cup {k :> v : v \in V}

Range(s) == {s[i] : i \in DOMAIN s}

Perms(n) == {p \in [1..n -> 1..n] : \A i, j \in 1..n : p[i] = p[j] => i = j}

SeqsUpTo(S, n) == UNION {[1..k -> S] : k \in 0..n}

\* the multiset of the elements of a sequence
BagOf(s) == [x \in Range(s) |-> Cardinality({i \in DOMAIN s : s[i] = x})]

----------------------------------------------------------------------------
(* fbase.py: the record normalizer *)

NormalizeItem_LegacyOnly(item) ==
    [name     |-> Get(item, "item_name", "Unknown"),
     price    |-> Get(item, "price", 0),
     quantity |-> Get(item, "quantity", 1)]

NormalizeItem(item) ==
    [name     |-> IF Truthy(GetOrNone(item, "item_name"))
                  THEN item["item_name"]
                  ELSE Get(item, "name", "Unknown"),
     price    |-> Get(item, "price", 0),
     quantity |-> Get(item, "quantity", 1)]

normalize_receipt(raw_data) ==
    [type_of_purchase   |-> Get(raw_data, "type_of_purchase", "Retail"),
     establishment_name |-> Get(raw_data, "establishment_name", "Unknown Store"),
     date               |-> Get(raw_data, "date", ""),
     total              |-> Get(raw_data, "total", 0),
     items              |-> [i \in DOMAIN Get(raw_data, "items", <<>>) |->
                                NormalizeItem(raw_data["items"][i])]]

----------------------------------------------------------------------------
(* Inputs: raw records as a client or the extraction model may send them *)

RawItems ==
    {a @@ b @@ c @@ d :
        a \in Opt("item_name", {"", "Tea"}), b \in Opt("name", {"", "Milk"}),
        c \in Opt("price", {95}), d \in Opt("quantity", {3})}

RawHeaders ==
    {a @@ b @@ c @@ d :
        a \in Opt("type_of_purchase", {"Restaurant"}),
        b \in Opt("establishment_name", {"Cafe"}),
        c \in Opt("date", {"2024-05-01"}),
        d \in Opt("total", {95})}

\* every header with at most one item, and every item list without a header
RawRecords ==
    {h @@ i : h \in RawHeaders, i \in Opt("items", SeqsUpTo(RawItems, 1))}
    \cup Opt("items", SeqsUpTo(RawItems, MaxItems))

\* the record of the scenario in the specification's section 8
Scenario ==
    [establishment_name |-> "Cafe", total |-> 95,
     items |-> <<[item_name |-> "Tea", price |-> 95]>>]

\* the records saved through the gateway: the scenario of the
\* specification's section 8 first, then items in the legacy field, the
\* current field, both, neither, and an empty legacy field
SavedRecords ==
    {Scenario,
     [type_of_purchase |-> "Restaurant", establishment_name |-> "Diner",
      date |-> "2024-05-01", total |-> 190,
      items |-> <<[name |-> "Milk", price |-> 95, quantity |-> 3],
                  [item_name |-> "Tea", name |-> "Milk"]>>],
     [items |-> <<EmptyDict, [item_name |-> "", name |-> "Milk"]>>],
     [total |-> 5, items |-> <<>>],
     EmptyDict}

Users == {"u1", "u2"}

----------------------------------------------------------------------------
(* The document store: collection "receipts", sub-collection "items" *)

DocIds == 1..MaxReceipts

\* firestore.SERVER_TIMESTAMP
ServerTimestamp == now

\* query order: created_at descending, document name breaking ties
Before(a, b) ==
    \/ receipts[a].created_at > receipts[b].created_at
    \/ receipts[a].created_at = receipts[b].created_at /\ a > b

OrderedDocs(S) ==
    CHOOSE s \in [1..Cardinality(S) -> S] :
        \A i, j \in 1..Cardinality(S) : i < j => Before(s[i], s[j])

insert_data_Compensated(receipt_data, user_id, id, fail, perm) ==
    LET receipt == normalize_receipt(receipt_data)
        n == Len(receipt.items)
        doc == [user_sub |-> user_id,
                type_of_purchase |-> receipt.type_of_purchase,
                establishment_name |-> receipt.establishment_name,
                date |-> receipt.date,
                total |-> receipt.total,
                created_at |-> ServerTimestamp]
    IN  IF fail <= n
        THEN [ok |-> FALSE, receipts |-> receipts, items |-> items,
              store |-> IF fail = 0 THEN 1 ELSE 2 + fail]
        ELSE [ok |-> TRUE, id |-> id,
              receipts |-> (id :> doc) @@ receipts,
              items |-> (id :> [k \in 1..n |-> receipt.items[perm[k]]]) @@ items,
              store |-> 1 + n]

(* fbase.py insert_data.  id is the document name the store assigns; fail
   is the write the store rejects (0: the receipt document, k: the k-th
   item, Len+1: none); perm is the order in which the item documents, named
   at random, stream back.  ok is FALSE where the code returns None; store
   counts the calls made to the document store. *)
insert_data(receipt_data, user_id, id, fail, perm) ==
    LET receipt == normalize_receipt(receipt_data)
        n == Len(receipt.items)
        written == IF fail <= n THEN fail - 1 ELSE n
        doc == [user_sub |-> user_id,
                type_of_purchase |-> receipt.type_of_purchase,
                establishment_name |-> receipt.establishment_name,
                date |-> receipt.date,
                total |-> receipt.total,
                created_at |-> ServerTimestamp]
    IN  IF fail = 0
        THEN [ok |-> FALSE, receipts |-> receipts, items |-> items, store |-> 1]
        ELSE [ok |-> fail > n, id |-> id,
              receipts |-> (id :> doc) @@ receipts,
              items |-> (id :> [k \in 1..written |-> receipt.items[perm[k]]]) @@ items,
              store |-> IF fail <= n THEN 1 + fail ELSE 1 + n]

ListItem_LegacyOnly(item_data) ==
    [name     |-> Get(item_data, "item_name", "Unknown"),
     price    |-> Get(item_data, "price", 0),
     quantity |-> Get(item_data, "quantity", 1)]

ListItem(item_data) ==
    [name     |-> Get(item_data, "item_name", Get(item_data, "name", "Unknown")),
     price    |-> Get(item_data, "price", 0),
     quantity |-> Get(item_data, "quantity", 1)]

get_all_receipts_Unscoped(user_id) ==
    LET docs == OrderedDocs(DOMAIN receipts)
    IN  [k \in DOMAIN docs |->
            ("items" :> [i \in DOMAIN items[docs[k]] |-> ListItem(items[docs[k]][i])])
            @@ ("id" :> docs[k]) @@ receipts[docs[k]]]

(* fbase.py get_all_receipts: where user_sub == user_id, newest first *)
get_all_receipts(user_id) ==
    LET docs == OrderedDocs({d \in DOMAIN receipts : receipts[d].user_sub = user_id})
    IN  [k \in DOMAIN docs |->
            ("items" :> [i \in DOMAIN items[docs[k]] |-> ListItem(items[docs[k]][i])])
            @@ ("id" :> docs[k]) @@ receipts[docs[k]]]

\* what a save may meet in the store: a free name among Ids, a rejected
\* write, an order of the item documents
SaveChoices(raw, Ids) ==
    LET n == Len(normalize_receipt(raw).items)
    IN  UNION {{[id |-> id, fail |-> f, perm |-> p] :
                    id \in Ids \ DOMAIN receipts,
                    p \in Perms(IF f = 0 THEN 0 ELSE IF f <= n THEN f - 1 ELSE n)} :
               f \in 0..(n + 1)}

----------------------------------------------------------------------------
(* auth.py: session tokens *)

JWT_SECRET == "change-me"

JWT_EXP_MINUTES == 1440

LifetimeTicks == JWT_EXP_MINUTES * 60 * TicksPerSecond

\* the instants the clock is observed at: from the start, and around the
\* moment one lifetime later
Instants == (0..Slack) \cup ((LifetimeTicks - Slack)..(LifetimeTicks + Slack))

\* int(datetime.timestamp())
IntTimestamp(t) == t \div TicksPerSecond

\* a JWT: its claims and the signature, which binds the claims to a key
Sign(payload, key) == <<key, payload>>

Jwt(payload, key) == [wellformed |-> TRUE, payload |-> payload, sig |-> Sign(payload, key)]

create_access_token_NoPicture(user, t) ==
    Jwt([sub     |-> user.sub,
         email   |-> user.email,
         name    |-> user.name,
         iat     |-> IntTimestamp(t),
         exp     |-> IntTimestamp(t + LifetimeTicks)],
        JWT_SECRET)

create_access_token(user, t) ==
    Jwt([sub     |-> user.sub,
         email   |-> user.email,
         name    |-> user.name,
         picture |-> user.picture,
         iat     |-> IntTimestamp(t),
         exp     |-> IntTimestamp(t + LifetimeTicks)],
        JWT_SECRET)

JwtDecode_NoExpiry(token, t) ==
    IF ~token.wellformed THEN [err |-> "DecodeError"]
    ELSE IF token.sig # Sign(token.payload, JWT_SECRET)
    THEN [err |-> "InvalidSignatureError"]
    ELSE [err |-> "", payload |-> token.payload]

(* jwt.decode(token, JWT_SECRET, algorithms=[JWT_ALGORITHM]) at time t: the
   structure, then the signature, then the registered claims iat and exp.
   A token is expired from the second its exp names on (RFC 7519, and the
   library's exp <= now); every error but ExpiredSignatureError is an
   InvalidTokenError of another kind. *)
JwtDecode(token, t) ==
    IF ~token.wellformed THEN [err |-> "DecodeError"]
    ELSE IF token.sig # Sign(token.payload, JWT_SECRET)
    THEN [err |-> "InvalidSignatureError"]
    ELSE IF "iat" \in DOMAIN token.payload
            /\ token.payload["iat"] * TicksPerSecond > t
    THEN [err |-> "ImmatureSignatureError"]
    ELSE IF "exp" \in DOMAIN token.payload
            /\ token.payload["exp"] * TicksPerSecond <= t
    THEN [err |-> "ExpiredSignatureError"]
    ELSE [err |-> "", payload |-> token.payload]

Unauthorized(detail) == [ok |-> FALSE, status_code |-> 401, detail |-> detail]

decode_access_token_ExceptOrder(token, t) ==
    LET d == JwtDecode(token, t)
    IN  IF d.err # "" THEN Unauthorized("Invalid token")
        ELSE IF ~Truthy(GetOrNone(d.payload, "sub"))
                \/ ~Truthy(GetOrNone(d.payload, "email"))
        THEN Unauthorized("Malformed token payload")
        ELSE [ok |-> TRUE,
              user |-> [sub     |-> d.payload["sub"],
                        email   |-> d.payload["email"],
                        name    |-> GetOrNone(d.payload, "name"),
                        picture |-> GetOrNone(d.payload, "picture")]]

decode_access_token_IgnoreExpiry(token, t) ==
    LET d == JwtDecode_NoExpiry(token, t)
    IN  IF d.err # "" THEN Unauthorized("Invalid token")
        ELSE IF ~Truthy(GetOrNone(d.payload, "sub"))
                \/ ~Truthy(GetOrNone(d.payload, "email"))
        THEN Unauthorized("Malformed token payload")
        ELSE [ok |-> TRUE,
              user |-> [sub     |-> d.payload["sub"],
                        email   |-> d.payload["email"],
                        name    |-> GetOrNone(d.payload, "name"),
                        picture |-> GetOrNone(d.payload, "picture")]]

\* a sign-in that ends the user's earlier sessions
decode_access_token_SingleSession(token, t) ==
    LET d == JwtDecode(token, t)
    IN  IF d.err = "ExpiredSignatureError" THEN Unauthorized("Token expired")
        ELSE IF d.err # "" THEN Unauthorized("Invalid token")
        ELSE IF ~Truthy(GetOrNone(d.payload, "sub"))
                \/ ~Truthy(GetOrNone(d.payload, "email"))
        THEN Unauthorized("Malformed token payload")
        ELSE IF \E e \in tokens : /\ e.jwt.payload["sub"] = d.payload["sub"]
                                  /\ e.jwt.payload["iat"] > d.payload["iat"]
        THEN Unauthorized("Invalid token")
        ELSE [ok |-> TRUE,
              user |-> [sub     |-> d.payload["sub"],
                        email   |-> d.payload["email"],
                        name    |-> GetOrNone(d.payload, "name"),
                        picture |-> GetOrNone(d.payload, "picture")]]

decode_access_token(token, t) ==
    LET d == JwtDecode(token, t)
    IN  IF d.err = "ExpiredSignatureError" THEN Unauthorized("Token expired")
        ELSE IF d.err # "" THEN Unauthorized("Invalid token")
        ELSE IF ~Truthy(GetOrNone(d.payload, "sub"))
                \/ ~Truthy(GetOrNone(d.payload, "email"))
        THEN Unauthorized("Malformed token payload")
        ELSE [ok |-> TRUE,
              user |-> [sub     |-> d.payload["sub"],
                        email   |-> d.payload["email"],
                        name    |-> GetOrNone(d.payload, "name"),
                        picture |-> GetOrNone(d.payload, "picture")]]

\* HTTPBearer(auto_error=False): None without a bearer Authorization header
NoCredentials == [scheme |-> "none"]

Bearer(token) == [scheme |-> "Bearer", credentials |-> token]

get_current_user(credentials, t) ==
    IF credentials.scheme = "none"
    THEN Unauthorized("Authorization header missing")
    ELSE decode_access_token(credentials.credentials, t)

----------------------------------------------------------------------------
(* llm.py: the extraction/reasoning dispatcher *)

\* Python values passed to llm_model as positional arguments: str (its characters), list, int
PyStr(chars) == [type |-> "str", chars |-> chars]

PyList(elems) == [type |-> "list", elems |-> elems]

PyInt(n) == [type |-> "int", n |-> n]

LowerChar(c) ==
    CASE c = "J" -> "j" [] c = "P" -> "p" [] c = "G" -> "g" [] c = "E" -> "e"
      [] c = "N" -> "n" [] c = "A" -> "a" [] OTHER -> c

Lower(chars) == [i \in DOMAIN chars |-> LowerChar(chars[i])]

EndsWith(chars, suffix) ==
    /\ Len(chars) >= Len(suffix)
    /\ SubSeq(chars, Len(chars) - Len(suffix) + 1, Len(chars)) = suffix

ImageSuffixes == {<<".", "j", "p", "g">>, <<".", "j", "p", "e", "g">>, <<".", "p", "n", "g">>}

IsImagePath(v) ==
    v.type = "str" /\ \E suf \in ImageSuffixes : EndsWith(Lower(v.chars), suf)

(* llm.py fetch_all_receipts_from_firebase: every document of the collection,
   in document-name order, with its item documents as stored *)
fetch_all_receipts_from_firebase ==
    LET n == Cardinality(DOMAIN receipts)
        docs == CHOOSE s \in [1..n -> DOMAIN receipts] :
                    \A i, j \in 1..n : i < j => s[i] < s[j]
    IN  [k \in 1..n |->
            ("items" :> items[docs[k]]) @@ ("id" :> docs[k]) @@ receipts[docs[k]]]

llm_model_FirstArgOnly(args) ==
    IF Len(args) >= 1 /\ IsImagePath(args[1])
    THEN [mode |-> "image", model |-> 1, store |-> 0]
    ELSE IF Len(args) >= 1 /\ args[1].type = "str"
    THEN [mode |-> "chat", model |-> 1,
          store |-> IF Len(args) > 1 /\ args[2].type = "list" THEN 0 ELSE 1,
          prompt |-> args[1],
          context |-> IF Len(args) > 1 /\ args[2].type = "list"
                      THEN args[2].elems ELSE fetch_all_receipts_from_firebase]
    ELSE [mode |-> "ValueError", model |-> 0, store |-> 0]

(* llm.py llm_model on positional arguments args: the mode taken, the receipts put in the
   model's context, and the calls made to the model and to the store; the
   keyword arguments are never read *)
llm_model(args) ==
    IF Len(args) = 1 /\ IsImagePath(args[1])
    THEN [mode |-> "image", model |-> 1, store |-> 0]
    ELSE IF Len(args) >= 1 /\ args[1].type = "str"
    THEN [mode |-> "chat", model |-> 1,
          store |-> IF Len(args) > 1 /\ args[2].type = "list" THEN 0 ELSE 1,
          prompt |-> args[1],
          context |-> IF Len(args) > 1 /\ args[2].type = "list"
                      THEN args[2].elems ELSE fetch_all_receipts_from_firebase]
    ELSE [mode |-> "ValueError", model |-> 0, store |-> 0]

----------------------------------------------------------------------------
(* main.py: the wallet object builder *)

\* what the wallet issuer may answer to the POST of an object
IssuerResponses ==
    {[status_code |-> 200, text |-> "{}"],
     [status_code |-> 409, text |-> "object already exists"],
     [status_code |-> 400, text |-> "invalid resource"],
     [status_code |-> 500, text |-> "backend error"]}

ObjectPayload(receipt_data, t) ==
    [id        |-> IntTimestamp(t),
     cardTitle |-> receipt_data["establishment_name"],
     header    |-> receipt_data["type_of_purchase"],
     subheader |-> receipt_data["date"],
     total     |-> receipt_data["total"],
     items     |-> receipt_data["items"]]

\* main.py create_jwt_save_url: the save prefix and an RS256-signed token
create_jwt_save_url(object_payload) ==
    [prefix |-> "https://pay.google.com/gp/v/save/",
     token  |-> Jwt([iss |-> "service-account", aud |-> "google",
                     typ |-> "savetowallet", payload |-> object_payload],
                    "wallet-private-key")]

create_wallet_object_Only200(receipt_data, t, response) ==
    IF response.status_code = 200
    THEN [ok |-> TRUE, posts |-> 1, printed |-> "",
          save_url |-> create_jwt_save_url(ObjectPayload(receipt_data, t))]
    ELSE [ok |-> FALSE, posts |-> 1, printed |-> response.text]

(* main.py create_wallet_object: one POST to the issuer, answered by response;
   ok is FALSE where the code returns None; printed is what goes to stdout *)
create_wallet_object(receipt_data, t, response) ==
    IF response.status_code \in {200, 409}
    THEN [ok |-> TRUE, posts |-> 1, printed |-> "",
          save_url |-> create_jwt_save_url(ObjectPayload(receipt_data, t))]
    ELSE [ok |-> FALSE, posts |-> 1, printed |-> response.text]

----------------------------------------------------------------------------
(* llm_api.py: the endpoints.  Each yields the response, the calls made to
   the document store, the model and the wallet issuer, and the store after *)

Fx(store, model, issuer) == [store |-> store, model |-> model, issuer |-> issuer]

\* ctx: the receipts placed in the model's context, when a chat request is
\* made; log: what the request printed of the issuer's answer
Outcome(resp, fx, rs, its) ==
    [resp |-> resp, fx |-> fx, receipts |-> rs, items |-> its, ctx |-> <<>>, log |-> ""]

\* an HTTPException answered by the framework
HttpError(status_code, detail) == [http |-> status_code, detail |-> detail]

Json(body) == [http |-> 200, body |-> body]

ErrorBody(message) == [status |-> "error", message |-> message]

\* the dependency get_current_user raised: the endpoint body never runs
Rejected(auth) ==
    Outcome(HttpError(auth.status_code, auth.detail), Fx(0, 0, 0), receipts, items)

\* safe_json: json.dumps(obj, default=str) turns the timestamp into its text
safe_json(receipt) == ("created_at" :> <<"str", receipt["created_at"]>>) @@ receipt

auth_me(credentials, t) ==
    LET auth == get_current_user(credentials, t)
    IN  IF ~auth.ok THEN Rejected(auth)
        ELSE Outcome(Json([status |-> "success", user |-> auth.user]),
                     Fx(0, 0, 0), receipts, items)

\* what the extraction model may return: text that parses to a Receipt, or not
Extractions ==
    {[parses |-> TRUE,
      receipt |-> [type_of_purchase |-> "Retail", date |-> "2024-05-01",
                   establishment_name |-> "Cafe", total |-> 95,
                   items |-> <<[name |-> "Tea", price |-> 95, quantity |-> 1]>>]],
     [parses |-> FALSE]}

TempPath == PyStr(<<"t", "m", "p", ".", "j", "p", "g">>)

\* file: the form carries the part "file".  File(...) makes it required: the
\* framework answers a request without it, once the dependency has passed,
\* and the endpoint body never runs
extract_receipt(credentials, t, file, extraction) ==
    LET auth == get_current_user(credentials, t)
        result == llm_model(<<TempPath>>)
    IN  IF ~auth.ok THEN Rejected(auth)
        ELSE IF ~file
        THEN Outcome(HttpError(422, "Field required"), Fx(0, 0, 0), receipts, items)
        ELSE IF result.mode = "image" /\ extraction.parses
        THEN Outcome(Json([status |-> "success", data |-> extraction.receipt]),
                     Fx(result.store, result.model, 0), receipts, items)
        ELSE Outcome(Json(ErrorBody("extraction failed")),
                     Fx(result.store, result.model, 0), receipts, items)

\* a request body: text that parses as JSON to data, or text that does not
JsonBody(data) == [json |-> TRUE, data |-> data]

NotJson == [json |-> FALSE]

\* the save that is never attempted
NoWrite == [id |-> 0, fail |-> 0, perm |-> <<>>]

save_receipt(credentials, t, body, choice) ==
    LET auth == get_current_user(credentials, t)
        saved == insert_data(body.data, auth.user.sub, choice.id, choice.fail, choice.perm)
    IN  IF ~auth.ok THEN Rejected(auth)
        ELSE IF ~body.json
        THEN Outcome(Json(ErrorBody("Expecting value")), Fx(0, 0, 0), receipts, items)
        ELSE IF saved.ok
        THEN Outcome(Json([status |-> "success", receipt_id |-> saved.id]),
                     Fx(saved.store, 0, 0), saved.receipts, saved.items)
        ELSE Outcome(Json(ErrorBody("Failed to save")),
                     Fx(saved.store, 0, 0), saved.receipts, saved.items)

list_receipts_ErrorBody(credentials, t, up) ==
    LET auth == get_current_user(credentials, t)
        found == get_all_receipts(auth.user.sub)
    IN  IF ~auth.ok THEN Rejected(auth)
        ELSE IF ~up
        THEN Outcome(Json(ErrorBody("store unavailable")), Fx(1, 0, 0), receipts, items)
        ELSE Outcome(Json([status |-> "success",
                           data |-> [k \in DOMAIN found |-> safe_json(found[k])]]),
                     Fx(1 + Len(found), 0, 0), receipts, items)

list_receipts(credentials, t, up) ==
    LET auth == get_current_user(credentials, t)
        found == get_all_receipts(auth.user.sub)
    IN  IF ~auth.ok THEN Rejected(auth)
        ELSE IF ~up
        THEN Outcome(HttpError(500, "store unavailable"), Fx(1, 0, 0), receipts, items)
        ELSE Outcome(Json([status |-> "success",
                           data |-> [k \in DOMAIN found |-> safe_json(found[k])]]),
                     Fx(1 + Len(found), 0, 0), receipts, items)

WalletItem(item_data) ==
    [name     |-> Get(item_data, "item_name", "unknown"),
     price    |-> Get(item_data, "price", 0),
     quantity |-> Get(item_data, "quantity", 1)]

save_to_wallet_Forbidden(credentials, t, receipt_id, up, response) ==
    LET auth == get_current_user(credentials, t)
        receipt_data ==
            ("items" :> [i \in DOMAIN items[receipt_id] |->
                            WalletItem(items[receipt_id][i])])
            @@ receipts[receipt_id]
        wallet == create_wallet_object(receipt_data, t, response)
    IN  IF ~auth.ok THEN Rejected(auth)
        ELSE IF ~up
        THEN Outcome(Json(ErrorBody("store unavailable")), Fx(1, 0, 0), receipts, items)
        ELSE IF receipt_id \notin DOMAIN receipts
        THEN Outcome(Json(ErrorBody("Receipt not found")), Fx(1, 0, 0), receipts, items)
        ELSE IF receipts[receipt_id].user_sub # auth.user.sub
        THEN Outcome(Json(ErrorBody("Forbidden")), Fx(1, 0, 0), receipts, items)
        ELSE IF wallet.ok
        THEN Outcome(Json([status |-> "success", saveUrl |-> wallet.save_url]),
                     Fx(2, 0, wallet.posts), receipts, items)
        ELSE [Outcome(Json(ErrorBody("Failed to create wallet object")),
                      Fx(2, 0, wallet.posts), receipts, items)
                EXCEPT !.log = wallet.printed]

save_to_wallet(credentials, t, receipt_id, up, response) ==
    LET auth == get_current_user(credentials, t)
        receipt_data ==
            ("items" :> [i \in DOMAIN items[receipt_id] |->
                            WalletItem(items[receipt_id][i])])
            @@ receipts[receipt_id]
        wallet == create_wallet_object(receipt_data, t, response)
    IN  IF ~auth.ok THEN Rejected(auth)
        ELSE IF ~up
        THEN Outcome(Json(ErrorBody("store unavailable")), Fx(1, 0, 0), receipts, items)
        ELSE IF receipt_id \notin DOMAIN receipts
        THEN Outcome(Json(ErrorBody("Receipt not found")), Fx(1, 0, 0), receipts, items)
        ELSE IF receipts[receipt_id].user_sub # auth.user.sub
        THEN Outcome(Json(ErrorBody("Receipt not found")), Fx(1, 0, 0), receipts, items)
        ELSE IF wallet.ok
        THEN Outcome(Json([status |-> "success", saveUrl |-> wallet.save_url]),
                     Fx(2, 0, wallet.posts), receipts, items)
        ELSE [Outcome(Json(ErrorBody("Failed to create wallet object")),
                      Fx(2, 0, wallet.posts), receipts, items)
                EXCEPT !.log = wallet.printed]

\* the prompts a chat body may carry: text, text that names an image, a number
Prompts ==
    {PyStr(<<"h", "i">>), PyStr(<<"a", ".", "P", "N", "G">>), PyStr(<<>>), PyInt(5)}

llm_receipt(credentials, t, prompt, up) ==
    LET auth == get_current_user(credentials, t)
        found == get_all_receipts(auth.user.sub)
        result == llm_model(<<prompt, PyList(found)>>)
    IN  IF ~auth.ok THEN Rejected(auth)
        ELSE IF ~up
        THEN Outcome(Json([reply |-> "Error: store unavailable"]),
                     Fx(1, 0, 0), receipts, items)
        ELSE IF result.mode = "chat"
        THEN [Outcome(Json([reply |-> "model reply"]),
                      Fx(1 + Len(found) + result.store, result.model, 0),
                      receipts, items) EXCEPT !.ctx = result.context]
        ELSE Outcome(Json([reply |-> "Error: Invalid llm_model call"]),
                     Fx(1 + Len(found) + result.store, result.model, 0),
                     receipts, items)

----------------------------------------------------------------------------
(* Requests *)

\* the profiles the identity provider vouches for
Profiles ==
    {[sub |-> "u1", email |-> "u1@example.org", name |-> "Ann", picture |-> None],
     [sub |-> "u2", email |-> "u2@example.org", name |-> None, picture |-> "pic.png"]}

FarFuture == IntTimestamp(3 * LifetimeTicks)

Garbage == [wellformed |-> FALSE, payload |-> EmptyDict, sig |-> <<>>]

\* tokens nobody issued: not a JWT; signed with a guessed key, unexpired and
\* expired; signed with the secret but without a subject or with an empty email
CraftedTokens ==
    {Garbage,
     Jwt([sub |-> "u1", email |-> "u1@example.org", name |-> None, picture |-> None,
          iat |-> 0, exp |-> FarFuture], "guessed-key"),
     Jwt([sub |-> "u1", email |-> "u1@example.org", name |-> None, picture |-> None,
          iat |-> 0, exp |-> 0], "guessed-key"),
     Jwt([email |-> "u1@example.org", iat |-> 0, exp |-> FarFuture], JWT_SECRET),
     Jwt([sub |-> "u2", email |-> "", iat |-> 0, exp |-> FarFuture], JWT_SECRET)}

\* an issued token whose expiry was edited, under the signature it came with
Tampered(token) == [token EXCEPT !.payload.exp = FarFuture]

\* tokens records every token issued: the JWT, and for whom
Issued == {e.jwt : e \in tokens}

Sessions == {NoCredentials} \cup {Bearer(tk) : tk \in Issued}

Presented ==
    Sessions \cup {Bearer(tk) : tk \in CraftedTokens}
             \cup {Bearer(Tampered(tk)) : tk \in Issued}

Init ==
    /\ now = 0
    /\ tokens = {}
    /\ receipts = EmptyDict
    /\ items = EmptyDict
    /\ last = [op |-> "init"]

\* the request op was served: what was sent, when, and what came of it
Serve(op, credentials, input, out) ==
    /\ last' = [op |-> op, credentials |-> credentials, at |-> now, input |-> input,
                resp |-> out.resp, fx |-> out.fx, ctx |-> out.ctx, log |-> out.log]
    /\ receipts' = out.receipts
    /\ items' = out.items
    /\ UNCHANGED <<now, tokens>>

Advance ==
    /\ \E t \in Instants : t > now /\ now' = t
    /\ UNCHANGED <<tokens, receipts, items, last>>

\* llm_api.py google_auth: POST /auth/google
GoogleAuth(Known) ==
    \E a \in {[valid |-> TRUE, claims |-> p] : p \in Known} \cup {[valid |-> FALSE]} :
        IF a.valid
        THEN LET token == create_access_token(a.claims, now)
                 entry == [jwt |-> token, user |-> a.claims]
             IN  /\ entry \in tokens \/ Cardinality(tokens) < MaxTokens
                 /\ tokens' = tokens \cup {entry}
                 /\ last' = [op |-> "google_auth", at |-> now, user |-> a.claims,
                             resp |-> Json([status |-> "success", token |-> token,
                                            user |-> a.claims])]
                 /\ UNCHANGED <<now, receipts, items>>
        ELSE /\ last' = [op |-> "google_auth", at |-> now,
                         resp |-> HttpError(401, "Invalid Google credential")]
             /\ UNCHANGED <<now, tokens, receipts, items>>

AuthMe(Creds) ==
    \E c \in Creds : Serve("auth_me", c, EmptyDict, auth_me(c, now))

ExtractReceipt(Creds, Files, Extracted) ==
    \E c \in Creds, file \in Files, x \in Extracted :
        Serve("extract_receipt", c, [file |-> file, extraction |-> x],
              extract_receipt(c, now, file, x))

SaveReceipt(Creds, Bodies, Ids) ==
    \E c \in Creds, body \in Bodies :
        \E choice \in IF body.json THEN SaveChoices(body.data, Ids) ELSE {NoWrite} :
            Serve("save_receipt", c, [body |-> body, choice |-> choice],
                  save_receipt(c, now, body, choice))

ListReceipts(Creds, Ups) ==
    \E c \in Creds, up \in Ups :
        Serve("list_receipts", c, [up |-> up], list_receipts(c, now, up))

SaveToWallet(Creds, Ids, Ups, Responses) ==
    \E c \in Creds, id \in Ids, up \in Ups, r \in Responses :
        Serve("save_to_wallet", c, [receipt_id |-> id, up |-> up, response |-> r],
              save_to_wallet(c, now, id, up, r))

LlmReceipt(Creds, Ups, Asked) ==
    \E c \in Creds, prompt \in Asked, up \in Ups :
        Serve("llm_receipt", c, [prompt |-> prompt, up |-> up],
              llm_receipt(c, now, prompt, up))

----------------------------------------------------------------------------
(* Spec: the endpoints as signed-in and anonymous clients use them *)

Next ==
    \/ GoogleAuth(Profiles)
    \/ AuthMe(Sessions)
    \/ ExtractReceipt(Sessions, BOOLEAN, Extractions)
    \/ SaveReceipt(Sessions, {JsonBody(Scenario), NotJson}, DocIds)
    \/ ListReceipts(Sessions, BOOLEAN)
    \/ SaveToWallet(Sessions, DocIds, BOOLEAN, IssuerResponses)
    \/ LlmReceipt(Sessions, BOOLEAN, Prompts)

Spec == Init /\ [][Next]_vars

----------------------------------------------------------------------------
(* SpecAuth: the endpoints under every credential, as time passes and one
   user signs in *)

AuthProfiles == {p \in Profiles : p.sub = "u1"}

NextAuth ==
    \/ Advance
    \/ GoogleAuth(AuthProfiles)
    \/ AuthMe(Presented)
    \/ ExtractReceipt(Presented, {TRUE}, {[parses |-> FALSE]})
    \/ SaveReceipt(Presented, {JsonBody(EmptyDict)}, {1})
    \/ ListReceipts(Presented, {TRUE})
    \/ SaveToWallet(Presented, {1}, {TRUE}, {[status_code |-> 200, text |-> "{}"]})
    \/ LlmReceipt(Presented, {TRUE}, {PyStr(<<"h", "i">>)})

SpecAuth == Init /\ [][NextAuth]_vars

----------------------------------------------------------------------------
(* SpecToken: tokens issued to varied profiles, validated as time passes *)

TokenProfiles ==
    Profiles \cup
    {[sub |-> "u1", email |-> "u1@example.org", name |-> n, picture |-> pic] :
        n \in {None, "", "Ann"}, pic \in {None, "pic.png"}}

NextToken ==
    \/ Advance
    \/ GoogleAuth(TokenProfiles)
    \/ AuthMe(Presented)

SpecToken == Init /\ [][NextToken]_vars

----------------------------------------------------------------------------
(* SpecNormalize: normalize_receipt applied, and applied again to its result *)

InitNormalize ==
    /\ now = 0
    /\ tokens = {}
    /\ receipts = EmptyDict
    /\ items = EmptyDict
    /\ \E raw \in RawRecords : last = [op |-> "raw", raw |-> raw]

Normalize ==
    /\ last.op = "raw"
    /\ last' = [op |-> "normalize", raw |-> last.raw, out |-> normalize_receipt(last.raw)]
    /\ UNCHANGED <<now, tokens, receipts, items>>

Renormalize ==
    /\ last.op = "normalize"
    /\ last' = [op |-> "renormalize", raw |-> last.raw, out |-> last.out,
                again |-> normalize_receipt(last.out)]
    /\ UNCHANGED <<now, tokens, receipts, items>>

NextNormalize == Normalize \/ Renormalize

SpecNormalize == InitNormalize /\ [][NextNormalize]_vars

----------------------------------------------------------------------------
(* SpecGateway: insert_data and get_all_receipts called for any owner *)

GwSave(Raws) ==
    \E u \in Users, data \in Raws :
        \E choice \in SaveChoices(data, DocIds) :
            LET saved == insert_data(data, u, choice.id, choice.fail, choice.perm)
            IN  /\ last' = [op |-> "insert_data", user |-> u, data |-> data,
                            ok |-> saved.ok, id |-> choice.id,
                            fail |-> choice.fail, store |-> saved.store]
                /\ receipts' = saved.receipts
                /\ items' = saved.items
                /\ UNCHANGED <<now, tokens>>

\* prev: the call before this one, when it was a save
GwList ==
    \E u \in Users :
        /\ last' = [op |-> "get_all_receipts", user |-> u,
                    result |-> get_all_receipts(u),
                    prev |-> IF last.op = "insert_data" THEN last ELSE [op |-> "other"]]
        /\ UNCHANGED <<now, tokens, receipts, items>>

NextGateway == GwSave(SavedRecords) \/ GwList

SpecGateway == Init /\ [][NextGateway]_vars

----------------------------------------------------------------------------
(* SpecDispatch: llm_model called directly, on behalf of a caller *)

FirstArgs == Prompts \cup {PyStr(<<"x", ".", "j", "p", "e", "g">>)}

\* argument lists: none, one, or a second argument that is the caller's
\* receipts or not a list at all
ArgLists(caller) ==
    {<<>>} \cup {<<a>> : a \in FirstArgs}
           \cup {<<a, b>> : a \in FirstArgs,
                            b \in {PyList(get_all_receipts(caller)), PyInt(7)}}

\* prev: the first argument, the argument count and the mode of the call before
DispatchCall ==
    \E caller \in Users :
        \E args \in ArgLists(caller) :
            LET result == llm_model(args)
            IN  /\ last' = [op |-> "llm_model", caller |-> caller, args |-> args,
                            mode |-> result.mode, model |-> result.model,
                            store |-> result.store,
                            ctx |-> IF result.mode = "chat" THEN result.context ELSE <<>>,
                            prev |-> IF last.op = "llm_model" /\ Len(last.args) >= 1
                                     THEN [first |-> last.args[1], n |-> Len(last.args),
                                           mode |-> last.mode]
                                     ELSE [n |-> 0]]
                /\ UNCHANGED <<now, tokens, receipts, items>>

NextDispatch == GwSave({Scenario}) \/ DispatchCall

SpecDispatch == Init /\ [][NextDispatch]_vars

----------------------------------------------------------------------------
(* Properties of the endpoints (Spec) *)

\* the user the bearer token of the last request was issued to
Caller == (CHOOSE e \in tokens : e.jwt = last.credentials.credentials).user

Served(op) == last.op = op /\ last.resp.http # 401

NotFound == Json(ErrorBody("Receipt not found"))

(* C1: a listing returns only receipts whose stored owner tag is the
   caller's subject-id, and a save tags the document it writes with the
   saver's subject-id, so a receipt saved by A is never in B's listing. *)
C1_ListingIsScoped ==
    /\ (Served("list_receipts") /\ last.resp.http = 200) =>
            \A k \in DOMAIN last.resp.body.data :
                /\ last.resp.body.data[k]["user_sub"] = Caller.sub
                /\ receipts[last.resp.body.data[k]["id"]].user_sub = Caller.sub
    /\ (Served("save_receipt") /\ last.input.choice.id \in DOMAIN receipts) =>
            receipts[last.input.choice.id].user_sub = Caller.sub

\* B lists its own receipt while a receipt saved by A is in the store
C1_Witness ==
    /\ Served("list_receipts") /\ last.resp.http = 200
    /\ Len(last.resp.body.data) = 1
    /\ \E d \in DOMAIN receipts : receipts[d].user_sub # Caller.sub

(* C2: a signed-in caller asking for the wallet pass of a receipt that is
   missing, or that exists under another owner, gets the same "Receipt not
   found" answer after the same single store read, and the wallet issuer is
   not called. *)
C2_ForeignLooksMissing ==
    (/\ Served("save_to_wallet") /\ last.input.up
     /\ \/ last.input.receipt_id \notin DOMAIN receipts
        \/ receipts[last.input.receipt_id].user_sub # Caller.sub)
    => /\ last.resp = NotFound
       /\ last.fx = Fx(1, 0, 0)
       /\ last.log = ""

\* the receipt asked for exists and belongs to somebody else
C2_Witness ==
    /\ Served("save_to_wallet") /\ last.input.up
    /\ last.input.receipt_id \in DOMAIN receipts
    /\ receipts[last.input.receipt_id].user_sub # Caller.sub
    /\ last.resp = NotFound

\* the last request reached the wallet builder with the caller's own receipt
WalletBuilt ==
    /\ Served("save_to_wallet") /\ last.input.up
    /\ last.input.receipt_id \in DOMAIN receipts
    /\ receipts[last.input.receipt_id].user_sub = Caller.sub

(* C10 as stated: one POST to the issuer; a save URL on 200 or 409; on any
   other status no URL, and the failure the caller of /save-to-wallet gets
   carries the issuer's raw error body. *)
C10_FailureCarriesIssuerBody ==
    WalletBuilt =>
        /\ last.fx.issuer = 1
        /\ IF last.input.response.status_code \in {200, 409}
           THEN /\ last.resp.body.status = "success"
                /\ last.resp.body.saveUrl.prefix = "https://pay.google.com/gp/v/save/"
           ELSE /\ last.resp.body.status = "error"
                /\ last.resp.body.message = last.input.response.text

(* C10 amended: one POST to the issuer; a save URL on 200 or 409; on any
   other status no URL, the issuer's raw error body is only printed by the
   server, and the caller of /save-to-wallet gets the fixed message "Failed
   to create wallet object". *)
C10_FailureIsGeneric ==
    WalletBuilt =>
        /\ last.fx.issuer = 1
        /\ IF last.input.response.status_code \in {200, 409}
           THEN /\ last.resp.body.status = "success"
                /\ last.resp.body.saveUrl.prefix = "https://pay.google.com/gp/v/save/"
                /\ last.resp.body.saveUrl.token.sig[1] = "wallet-private-key"
           ELSE /\ last.resp.body = ErrorBody("Failed to create wallet object")
                /\ last.log = last.input.response.text

\* the issuer refused the object and the caller got the fixed message
C10_Witness ==
    /\ WalletBuilt
    /\ last.input.response.status_code = 400
    /\ last.resp.body = ErrorBody("Failed to create wallet object")
    /\ last.log = "invalid resource"

\* the kind of failure the last request met after authentication, "" if none
FailureMet ==
    IF ~(last.op \in {"extract_receipt", "save_receipt", "list_receipts",
                      "save_to_wallet", "llm_receipt"} /\ last.resp.http # 401)
    THEN ""
    ELSE CASE last.op = "extract_receipt" ->
                IF ~last.input.file THEN "no file"
                ELSE IF ~last.input.extraction.parses THEN "extraction" ELSE ""
           [] last.op = "save_receipt" ->
                IF ~last.input.body.json THEN "request"
                ELSE IF last.input.choice.fail
                          <= Len(normalize_receipt(last.input.body.data).items)
                THEN "store" ELSE ""
           [] last.op = "list_receipts" ->
                IF ~last.input.up THEN "store" ELSE ""
           [] last.op = "save_to_wallet" ->
                IF ~last.input.up THEN "store"
                ELSE IF \/ last.input.receipt_id \notin DOMAIN receipts
                        \/ receipts[last.input.receipt_id].user_sub # Caller.sub
                THEN "not found"
                ELSE IF last.input.response.status_code \notin {200, 409}
                THEN "wallet" ELSE ""
           [] last.op = "llm_receipt" ->
                IF ~last.input.up THEN "store"
                ELSE IF last.input.prompt.type # "str" THEN "request" ELSE ""

StructuredError ==
    /\ last.resp.http = 200
    /\ DOMAIN last.resp.body = {"status", "message"}
    /\ last.resp.body.status = "error"

(* C11 as stated: a failure a protected endpoint meets after authentication
   is answered 200 with a body {status: "error", message}, except a store
   failure while listing, which is answered with HTTP 500. *)
C11_FailuresAreStructured ==
    FailureMet # "" =>
        IF last.op = "list_receipts" THEN last.resp.http = 500 ELSE StructuredError

(* C11 amended: a failure a protected endpoint meets after authentication is
   answered 200 with a body that carries the message: {status: "error",
   message} from /extract-receipt, /save-receipt and /save-to-wallet, and
   {reply: "Error: ..."} from /llm-receipt; except a store failure while
   listing, answered with HTTP 500, and an upload without its file part,
   refused with HTTP 422 before the endpoint runs.  No request without a
   failure is answered with an error. *)
C11_FailuresCarryTheMessage ==
    /\ FailureMet # "" =>
          CASE last.op = "list_receipts" -> last.resp.http = 500
            [] last.op = "llm_receipt" ->
                  /\ last.resp.http = 200
                  /\ DOMAIN last.resp.body = {"reply"}
                  /\ last.resp.body.reply
                        \in {"Error: store unavailable", "Error: Invalid llm_model call"}
            [] last.op = "extract_receipt" /\ FailureMet = "no file" ->
                  last.resp.http = 422
            [] OTHER -> StructuredError
    /\ (FailureMet = "" /\ last.op \notin {"init", "google_auth"} /\ last.resp.http # 401)
          => /\ last.resp.http = 200
             /\ "status" \in DOMAIN last.resp.body => last.resp.body.status = "success"
             /\ "reply" \in DOMAIN last.resp.body => last.resp.body.reply = "model reply"

\* the store took the receipt and refused its item: the save is answered
\* with an error body, not with a failed request
C11_Witness ==
    /\ last.op = "save_receipt"
    /\ FailureMet = "store"
    /\ last.input.choice.fail = 1
    /\ last.resp = Json(ErrorBody("Failed to save"))

\* the items of the wallet object the caller's save URL carries
WalletObjectItems == last.resp.body.saveUrl.token.payload.payload.items

(* C12 as stated: every path that reads stored items gives each item the name
   normalize gives that stored item (item_name if present, else name, else
   "Unknown"): the listing of /receipts, and the wallet object built by
   /save-to-wallet, where an item saved through save keeps the name it was
   saved with. *)
C12_ReadersFollowTheNormalizer ==
    /\ (Served("list_receipts") /\ last.resp.http = 200) =>
          \A k \in DOMAIN last.resp.body.data :
              LET listed == last.resp.body.data[k]
                  stored == items[listed["id"]]
              IN  /\ DOMAIN listed["items"] = DOMAIN stored
                  /\ \A i \in DOMAIN stored :
                        listed["items"][i].name = NormalizeItem(stored[i]).name
    /\ (WalletBuilt /\ last.resp.body.status = "success") =>
          LET stored == items[last.input.receipt_id]
          IN  /\ DOMAIN WalletObjectItems = DOMAIN stored
              /\ \A i \in DOMAIN stored :
                    WalletObjectItems[i].name = NormalizeItem(stored[i]).name

----------------------------------------------------------------------------
(* Properties of authentication (SpecAuth, SpecToken) *)

ProtectedOps ==
    {"auth_me", "extract_receipt", "save_receipt", "list_receipts",
     "save_to_wallet", "llm_receipt"}

\* the credential of the last request is a token this service issued
FromIssuer == last.credentials.scheme = "Bearer" /\ last.credentials.credentials \in Issued

\* the expiry a presented token states, in ticks
StatedExpiry == last.credentials.credentials.payload["exp"] * TicksPerSecond

\* the last request carried an issued token that had not expired
ValidSession == FromIssuer /\ last.at < StatedExpiry

AuthDetails ==
    {"Authorization header missing", "Invalid token", "Token expired",
     "Malformed token payload"}

(* C3: a protected request without a bearer credential, or with a token that
   is not an unexpired token of this service, is answered 401 with one of the
   four authentication details, makes no call to the document store, the
   model or the wallet issuer, and gets "Authorization header missing"
   exactly when the credential itself is absent. *)
C3_RejectedBeforeLogic ==
    (last.op \in ProtectedOps /\ ~ValidSession) =>
        /\ last.resp.http = 401
        /\ last.resp.detail \in AuthDetails
        /\ last.fx = Fx(0, 0, 0)
        /\ last.ctx = <<>>
        /\ (last.resp.detail = "Authorization header missing")
              <=> (last.credentials = NoCredentials)

\* a save attempted with an issued token after its expiry
C3_Witness ==
    /\ last.op = "save_receipt"
    /\ FromIssuer /\ last.at >= StatedExpiry
    /\ last.resp = HttpError(401, "Token expired")
    /\ receipts = EmptyDict

(* C4: a token issued for a profile and validated at a time from its issue
   up to, and not including, the expiry it states yields exactly that
   profile: subject-id, email, name and picture. *)
C4_ValidateReturnsIssuedProfile ==
    (last.op = "auth_me" /\ ValidSession) =>
        \A e \in tokens :
            (/\ e.jwt = last.credentials.credentials
             /\ e.jwt.payload.iat * TicksPerSecond <= last.at) =>
                last.resp = Json([status |-> "success", user |-> e.user])

\* the token is validated in the last tick before its expiry, for a profile
\* without a picture
C4_Witness ==
    /\ last.op = "auth_me" /\ ValidSession
    /\ last.at + 1 = StatedExpiry
    /\ last.resp.http = 200
    /\ last.resp.body.user.picture = None
    /\ last.resp.body.user.name = "Ann"

\* the last validation was of a token that states an expiry already reached
PastStatedExpiry ==
    /\ last.op = "auth_me"
    /\ last.credentials.scheme = "Bearer"
    /\ last.credentials.credentials.wellformed
    /\ "exp" \in DOMAIN last.credentials.credentials.payload
    /\ last.at >= StatedExpiry

(* C5 as stated: every token presented at or after the expiry it states is
   refused with "Token expired", never with "Invalid token". *)
C5_AnyExpiredTokenIsExpired ==
    PastStatedExpiry => last.resp = HttpError(401, "Token expired")

(* C5 amended: every token this service issued, presented at or after the
   expiry it states, is refused with "Token expired", never with "Invalid
   token". *)
C5_IssuedExpiredTokenIsExpired ==
    (PastStatedExpiry /\ FromIssuer) => last.resp = HttpError(401, "Token expired")

\* an issued token validated in the very tick its expiry is reached
C5_Witness ==
    /\ PastStatedExpiry /\ FromIssuer
    /\ last.at = StatedExpiry
    /\ last.resp = HttpError(401, "Token expired")

\* the expiry an issued token states, in ticks
ExpiresAt(e) == e.jwt.payload["exp"] * TicksPerSecond

\* validate accepts the issued token at time t, with the profile it was issued for
Accepted(e, t) == decode_access_token(e.jwt, t) = [ok |-> TRUE, user |-> e.user]

\* every issued token at the present time, and the validation just served
C14_TokenState ==
    /\ \A e \in tokens :
          IF now < ExpiresAt(e)
          THEN Accepted(e, now)
          ELSE decode_access_token(e.jwt, now) = Unauthorized("Token expired")
    /\ (last.op = "auth_me" /\ FromIssuer) =>
          IF last.at < StatedExpiry
          THEN last.resp.http = 200 /\ last.resp.body.user \in {e.user : e \in tokens}
          ELSE last.resp = HttpError(401, "Token expired")

\* a step of the service: time does not run back, and every issued token is
\* still outstanding, as issued
C14_TokenStep ==
    /\ now' >= now
    /\ tokens \subseteq tokens'

(* C14: with the signing secret unchanged, validate accepts an issued token
   at every time before the expiry it states and rejects it as expired at
   every time from then on; once rejected it is never accepted again; and no
   request, a new sign-in of the same user included, revokes, extends or
   changes a token already issued. *)
C14_IssuedValidExpired == []C14_TokenState /\ [][C14_TokenStep]_vars

\* the user's first token is accepted after a later sign-in of the same user
\* gave out a second one
C14_Witness ==
    /\ last.op = "auth_me" /\ FromIssuer
    /\ last.resp.http = 200
    /\ \E e \in tokens :
          /\ e.jwt.payload["sub"] = last.credentials.credentials.payload["sub"]
          /\ e.jwt.payload["iat"] > last.credentials.credentials.payload["iat"]
          /\ e.jwt.payload["exp"] > last.credentials.credentials.payload["exp"]

----------------------------------------------------------------------------
(* Properties of the normalizer and the gateway (SpecNormalize, SpecGateway) *)

RawItemsOf(raw) == Get(raw, "items", <<>>)

(* C6: normalize gives every absent field its default: type of purchase
   "Retail", establishment "Unknown Store", date "", total 0; every item its
   name from item_name, else from name, else "Unknown", price 0, quantity 1;
   and normalizing the result again changes nothing. *)
C6_DefaultsAndFixedPoint ==
    /\ last.op \in {"normalize", "renormalize"} =>
          /\ "type_of_purchase" \notin DOMAIN last.raw => last.out.type_of_purchase = "Retail"
          /\ "establishment_name" \notin DOMAIN last.raw
                => last.out.establishment_name = "Unknown Store"
          /\ "date" \notin DOMAIN last.raw => last.out.date = ""
          /\ "total" \notin DOMAIN last.raw => last.out.total = 0
          /\ Len(last.out.items) = Len(RawItemsOf(last.raw))
          /\ \A i \in DOMAIN last.out.items :
                LET item == RawItemsOf(last.raw)[i]
                    out == last.out.items[i]
                IN  /\ DOMAIN out = {"name", "price", "quantity"}
                    /\ "price" \notin DOMAIN item => out.price = 0
                    /\ "quantity" \notin DOMAIN item => out.quantity = 1
                    /\ ("item_name" \in DOMAIN item /\ item["item_name"] # "")
                          => out.name = item["item_name"]
                    /\ ("item_name" \notin DOMAIN item /\ "name" \in DOMAIN item)
                          => out.name = item["name"]
                    /\ ("item_name" \notin DOMAIN item /\ "name" \notin DOMAIN item)
                          => out.name = "Unknown"
    /\ last.op = "renormalize" => last.again = last.out

\* a record with no header field and one item under the current field name,
\* normalized twice
C6_Witness ==
    /\ last.op = "renormalize"
    /\ last.raw = [items |-> <<[name |-> "Milk"]>>]
    /\ last.again = [type_of_purchase |-> "Retail", establishment_name |-> "Unknown Store",
                     date |-> "", total |-> 0,
                     items |-> <<[name |-> "Milk", price |-> 0, quantity |-> 1]>>]

(* C7: when save(r, u) succeeds, the listing of u that follows holds the new
   receipt with the items of normalize(r), name, price and quantity each,
   whichever of item_name and name r used; for the Cafe record that is the
   single item Tea, 95, 1. *)
C7_SavedItemsAreListed ==
    (/\ last.op = "get_all_receipts" /\ last.prev.op = "insert_data"
     /\ last.prev.ok /\ last.prev.user = last.user)
    => \E k \in DOMAIN last.result :
          /\ last.result[k]["id"] = last.prev.id
          /\ BagOf(last.result[k]["items"]) = BagOf(normalize_receipt(last.prev.data).items)
          /\ last.prev.data = Scenario
                => last.result[k]["items"] = <<[name |-> "Tea", price |-> 95, quantity |-> 1]>>

\* the saved record has one item under the current field and one under both
C7_Witness ==
    /\ last.op = "get_all_receipts" /\ last.prev.op = "insert_data"
    /\ last.prev.ok /\ last.prev.user = last.user
    /\ Len(RawItemsOf(last.prev.data)) = 2
    /\ \E k \in DOMAIN last.result :
          /\ last.result[k]["id"] = last.prev.id
          /\ BagOf(last.result[k]["items"])
                = BagOf(<<[name |-> "Milk", price |-> 95, quantity |-> 3],
                          [name |-> "Tea", price |-> 0, quantity |-> 1]>>)

\* the last gateway call was a save whose receipt write the store accepted
\* and one of whose item writes it rejected
PartialSave(call) ==
    /\ call.op = "insert_data"
    /\ call.fail >= 1
    /\ call.fail <= Len(normalize_receipt(call.data).items)

\* the store after a partial save, and the listing that follows it
C13_PartialSaveState ==
    /\ PartialSave(last) =>
          LET wanted == normalize_receipt(last.data).items
          IN  /\ ~last.ok
              /\ last.store = 1 + last.fail
              /\ last.id \in DOMAIN receipts
              /\ receipts[last.id].user_sub = last.user
              /\ Len(items[last.id]) = last.fail - 1
              /\ Len(items[last.id]) < Len(wanted)
              /\ BagOf(items[last.id]) = BagOf(SubSeq(wanted, 1, last.fail - 1))
    /\ (last.op = "insert_data" /\ last.fail = 0) =>
          ~last.ok /\ last.store = 1 /\ last.id \notin DOMAIN receipts
    /\ (/\ last.op = "get_all_receipts" /\ PartialSave(last.prev)
        /\ last.prev.user = last.user) =>
          \E k \in DOMAIN last.result :
              /\ last.result[k]["id"] = last.prev.id
              /\ Len(last.result[k]["items"]) = last.prev.fail - 1
              /\ Len(last.result[k]["items"]) < Len(normalize_receipt(last.prev.data).items)
    /\ last.op = "get_all_receipts" =>
          /\ {last.result[k]["id"] : k \in DOMAIN last.result}
                = {d \in DOMAIN receipts : receipts[d].user_sub = last.user}
          /\ \A k \in DOMAIN last.result :
                Len(last.result[k]["items"]) = Len(items[last.result[k]["id"]])

\* no call removes or rewrites a stored receipt or its items
StoreOnlyGrows ==
    \A d \in DOMAIN receipts :
        /\ d \in DOMAIN receipts'
        /\ receipts'[d] = receipts[d]
        /\ items'[d] = items[d]

(* C13: when the store takes the receipt and then rejects an item write, save
   returns no id after one attempt at each write (no retry), the receipt and
   the items already written are in the store, no later call removes or
   completes them, and every listing of the owner returns that receipt with
   only the items that were written. *)
C13_PartialSaveStays == []C13_PartialSaveState /\ [][StoreOnlyGrows]_vars

\* a two-item record whose second item write failed, then listed by its
\* owner with one item
C13_Witness ==
    /\ last.op = "get_all_receipts" /\ PartialSave(last.prev)
    /\ last.prev.user = last.user
    /\ last.prev.fail = 2
    /\ \E k \in DOMAIN last.result :
          /\ last.result[k]["id"] = last.prev.id
          /\ Len(last.result[k]["items"]) = 1

----------------------------------------------------------------------------
(* Properties of the dispatcher (SpecDispatch) *)

(* C8 as stated: in conversational mode the receipts placed in the model's
   context all belong to the caller, whether they were passed to the
   dispatcher or fetched by it because none were passed. *)
C8_ContextIsTheCallers ==
    (last.op = "llm_model" /\ last.mode = "chat") =>
        \A k \in DOMAIN last.ctx : last.ctx[k]["user_sub"] = last.caller

NoUsableFirstArg == Len(last.args) = 0 \/ last.args[1].type # "str"

(* C9 as stated: one of the two modes runs for an accepted input, two calls
   with the same first argument take the same mode, and an input of neither
   shape fails with ValueError without a call to the model. *)
C9_ModeByFirstArgAlone ==
    last.op = "llm_model" =>
        /\ last.mode \in {"image", "chat", "ValueError"}
        /\ (last.prev.n >= 1 /\ Len(last.args) >= 1 /\ last.prev.first = last.args[1])
              => last.prev.mode = last.mode
        /\ NoUsableFirstArg <=> last.mode = "ValueError"
        /\ last.mode = "ValueError" => last.model = 0

(* C9 amended: one of the two modes runs for an accepted input; the mode is
   decided by the first argument together with whether it is the only
   positional argument: an image path selects image extraction only when it
   stands alone, and conversational mode when more arguments follow; an
   input of neither shape fails with ValueError without a call to the model. *)
C9_ModeByFirstArgAndCount ==
    last.op = "llm_model" =>
        /\ last.mode \in {"image", "chat", "ValueError"}
        /\ (/\ last.prev.n >= 1 /\ Len(last.args) >= 1
            /\ last.prev.first = last.args[1]
            /\ (last.prev.n = 1) <=> (Len(last.args) = 1))
              => last.prev.mode = last.mode
        /\ (last.mode = "image") => Len(last.args) = 1
        /\ (Len(last.args) > 1 /\ IsImagePath(last.args[1])) => last.mode = "chat"
        /\ NoUsableFirstArg <=> last.mode = "ValueError"
        /\ last.mode = "ValueError" => last.model = 0 /\ last.store = 0
        /\ last.mode \in {"image", "chat"} => last.model = 1

\* the same image path, first alone and then followed by receipts
C9_Witness ==
    /\ last.op = "llm_model"
    /\ last.prev.n = 1 /\ Len(last.args) = 2
    /\ last.prev.first = last.args[1]
    /\ last.prev.mode = "image" /\ last.mode = "chat"

====
